---- MODULE Spec2Model ----
(***************************************************************************)
(* One run of the dashboard script app.py (a refresh cycle), top to        *)
(* bottom: the MODIS overlay, the weather-marker loop, the map, the        *)
(* time-series section, the spatial-distribution section with its UHI      *)
(* analysis, and the live-alert loop.  The external services (Earth        *)
(* Engine, OpenWeather) answer nondeterministically: a value or an         *)
(* exception.                                                              *)
(*                                                                         *)
(* Temperatures are integers in hundredths of a degree Celsius (the        *)
(* resolution of the weather API and of the table's round(2)).  A Python   *)
(* float is a record [num, err]: num is the exact value in a stated unit,  *)
(* err in {-1, 0, 1} is the sign of a rounding deviation far below that    *)
(* unit (a few ulps), which only decides comparisons between values whose  *)
(* exact parts are equal.                                                  *)
(***************************************************************************)
EXTENDS Integers, Sequences, FiniteSets

VARIABLES
    pc,              \* position of the script run
    i,               \* index into locations of the running for-loop
    m,               \* the folium map: [layers, markers]
    district_temps,  \* the list built by the spatial section's loop
    summary,         \* what the spatial section computed from df_spatial
    page,            \* the elements rendered on the page in this run
    gets,            \* HTTP GETs sent to the weather API in this run, per district
    weatherFailed,   \* call sites whose get_weather raised in this run
    imageryFailed    \* imagery requests that raised in this run

vars == <<pc, i, m, district_temps, summary, page, gets, weatherFailed, imageryFailed>>

----------------------------------------------------------------------------
(* Bounds of the model *)

\* how many of the readings 25.61, 25.62, ... the weather API may return
ColdReadings == 2

\* longest feature list the imagery service returns for the time series
MaxFeatures == 2

----------------------------------------------------------------------------
(* Program constants *)

\* hundredths of a degree: df_display[...].round(2)
Scale == 100

ExtremeThreshold == 40

HighThreshold == 35

locations == <<"Delhi", "Gurgaon", "Noida", "Faridabad", "Ghaziabad">>

NumLocations == Len(locations)

EXTREME_HEAT == "Extreme Heat Alert! Stay Hydrated and Avoid Outdoor Activities."

HIGH_HEAT == "High Heat Warning! Take Precautions."

NORMAL == "Normal Temperature."

----------------------------------------------------------------------------
(* Inputs *)

\* Readings t for which the double-precision mean of five equal readings,
\* ((((t+t)+t)+t)+t)/5, comes out above t: 25.61 gives 25.610000000000003.
MeanRoundsUp == {2561, 2563}

\* Readings for which it comes out below t: 25.62 gives 25.619999999999997.
\* For every other reading of Temps it is t itself.
MeanRoundsDown == {2562, 2564}

ColdTemps == {t \in MeanRoundsUp \cup MeanRoundsDown : t - 2561 < ColdReadings}

\* the readings at and just below each threshold of heat_alert
ThresholdTemps == {thr * Scale - d : thr \in {HighThreshold, ExtremeThreshold}, d \in {0, 1}}

\* data["main"]["temp"] of a successful reply, in hundredths
Temps == ThresholdTemps \cup ColdTemps

\* one element of ts_list: a feature with a mean, one whose mean_lst is None, a null feature
FeatureKinds == {"valid", "null_mean", "none"}

FeatureLists == UNION {[1..n -> FeatureKinds] : n \in 0..MaxFeatures}

----------------------------------------------------------------------------
(* Pure functions of the script *)

heat_alert_strict(temp) ==
    IF temp > ExtremeThreshold * Scale THEN EXTREME_HEAT
    ELSE IF temp >= HighThreshold * Scale THEN HIGH_HEAT
    ELSE NORMAL

heat_alert_swapped(temp) ==
    IF temp >= ExtremeThreshold * Scale THEN HIGH_HEAT
    ELSE IF temp >= HighThreshold * Scale THEN EXTREME_HEAT
    ELSE NORMAL

heat_alert(temp) ==
    IF temp >= ExtremeThreshold * Scale THEN EXTREME_HEAT
    ELSE IF temp >= HighThreshold * Scale THEN HIGH_HEAT
    ELSE NORMAL

MarkerColorStrict(temp) == IF temp > HighThreshold * Scale THEN "red" ELSE "green"

\* folium.Icon(color="red" if w["temperature"] >= 35 else "green")
MarkerColor(temp) == IF temp >= HighThreshold * Scale THEN "red" ELSE "green"

Marker(name, temp) ==
    [name |-> name, temperature |-> temp, alert |-> heat_alert(temp), color |-> MarkerColor(temp)]

IssueGetTwice(g, d) == [g EXCEPT ![d] = @ + 2]

\* requests.get(url): one request, no retry
IssueGet(g, d) == [g EXCEPT ![d] = @ + 1]

----------------------------------------------------------------------------
(* Floats and columns *)

Float(n) == [num |-> n, err |-> 0]

Less(a, b) == a.num < b.num \/ (a.num = b.num /\ a.err < b.err)

IsNegative(a) == Less(a, Float(0))

IsPositive(a) == Less(Float(0), a)

RECURSIVE SumSeq(_)
SumSeq(s) == IF s = <<>> THEN 0 ELSE s[1] + SumSeq(Tail(s))

Column(df, field) == [j \in DOMAIN df |-> df[j][field]]

AllEqual(col) == \A j \in DOMAIN col : col[j] = col[1]

idxmax_last(col) ==
    CHOOSE j \in DOMAIN col :
        /\ \A k \in DOMAIN col : ~Less(col[j], col[k])
        /\ \A k \in DOMAIN col : k > j => Less(col[k], col[j])

\* Series.idxmax(): the label of the first occurrence of the maximum
idxmax(col) ==
    CHOOSE j \in DOMAIN col :
        /\ \A k \in DOMAIN col : ~Less(col[j], col[k])
        /\ \A k \in DOMAIN col : k < j => Less(col[k], col[j])

\* Series.idxmin(): the label of the first occurrence of the minimum
idxmin(col) ==
    CHOOSE j \in DOMAIN col :
        /\ \A k \in DOMAIN col : ~Less(col[k], col[j])
        /\ \A k \in DOMAIN col : k < j => Less(col[j], col[k])

\* Whether a deviation of the mean can change anything computed from it: a
\* reading equal to the exact mean (the sign of its anomaly), or an anomaly
\* halfway between two hundredths (its rounding).
Observable(col) ==
    \E j \in DOMAIN col :
        LET a == col[j] * Len(col) - SumSeq(col)
        IN  a = 0 \/ 2 * (a % Len(col)) = Len(col)

\* The rounding deviations Series.mean() can show on this column: none on
\* one or two readings (the sum and the division are exact), the computed one
\* on five equal readings, either direction otherwise (kept only where it
\* can be observed).
FloatMeanErr(col) ==
    IF Len(col) <= 2 THEN {0}
    ELSE IF Len(col) = NumLocations /\ AllEqual(col)
         THEN IF col[1] \in MeanRoundsUp THEN {1}
              ELSE IF col[1] \in MeanRoundsDown THEN {0 - 1}
              ELSE {0}
    ELSE IF Observable(col) THEN {0 - 1, 0, 1}
    ELSE {0}

MeanSkipsFirst(col, e) == [sum |-> SumSeq(Tail(col)), count |-> Len(col), err |-> e]

\* Series.mean(): sum / count, with rounding deviation e
Mean(col, e) == [sum |-> SumSeq(col), count |-> Len(col), err |-> e]

\* t - mean, in units of 1/(count * Scale) degree
Minus(t, mean) == [num |-> t * mean.count - mean.sum, err |-> 0 - mean.err]

\* round(2) of a float of units 1/(den * Scale) degree, in hundredths:
\* to the nearest, a tie to the even neighbour (a deviation breaks the tie)
Round2(a, den) ==
    LET q == a.num \div den
        r == a.num % den
    IN  IF 2 * r < den THEN q
        ELSE IF 2 * r > den THEN q + 1
        ELSE IF a.err > 0 THEN q + 1
        ELSE IF a.err < 0 THEN q
        ELSE IF q % 2 = 0 THEN q ELSE q + 1

----------------------------------------------------------------------------
(* The spatial section after its fetch loop: df_spatial to the UHI summary *)

NoSummary == [outcome |-> "none"]

NaN == [sum |-> 0, count |-> 0, err |-> 0]

IsNaN(mean) == mean.count = 0

Floats(col) == [j \in DOMAIN col |-> Float(col[j])]

\* df_uhi.loc[j]: a row of df_uhi with its label
Row(df, uhi, j) ==
    [index |-> j, District |-> df[j].District, Temperature |-> df[j].Temperature,
     UHI_Intensity |-> uhi[j]]

Summary(df, e) ==
    LET temps == Column(df, "Temperature")
        mean_temp == Mean(temps, e)
        uhi == [j \in DOMAIN df |-> Minus(temps[j], mean_temp)]
    IN  [outcome |-> "ok",
         n |-> Len(df),
         max_temp_district |-> df[idxmax(Floats(temps))].District,
         min_temp_district |-> df[idxmin(Floats(temps))].District,
         temp_anomaly |-> [j \in DOMAIN df |-> Round2(uhi[j], mean_temp.count)],
         mean_temp |-> mean_temp,
         uhi_intensity |-> uhi,
         hottest_district |-> Row(df, uhi, idxmax(uhi)),
         coolest_district |-> Row(df, uhi, idxmin(uhi))]

SpatialAnalysisDefaulting(df, e) ==
    IF df = <<>>
    THEN [outcome |-> "ok", n |-> 0, mean_temp |-> NaN, uhi_intensity |-> <<>>]
    ELSE Summary(df, e)

\* pd.DataFrame([]) has no columns: df_spatial['District'] raises KeyError,
\* which the section's except turns into an inline error
SpatialAnalysis(df, e) ==
    IF df = <<>>
    THEN [outcome |-> "error", error |-> "KeyError"]
    ELSE Summary(df, e)

----------------------------------------------------------------------------
(* The script run *)

EmptyMap == [layers |-> <<>>, markers |-> <<>>]

CallSites == {"markers", "spatial", "alerts"}

Init ==
    /\ pc = "modis"
    /\ i = 1
    /\ m = EmptyMap
    /\ district_temps = <<>>
    /\ summary = NoSummary
    /\ page = {}
    /\ gets = [d \in DOMAIN locations |-> 0]
    /\ weatherFailed = {}
    /\ imageryFailed = {}

\* An exception no try encloses ends the script run; Streamlit shows it.
Abort ==
    /\ pc' = "aborted"
    /\ page' = page \cup {"exception"}

\* lst.bandNames().size().getInfo() == 0, outside any try
BandCount ==
    /\ pc = "modis"
    /\ \/ /\ Abort
          /\ imageryFailed' = imageryFailed \cup {"bands"}
       \/ /\ pc' = "markers"
          /\ page' = page \cup {"modis_error"}
          /\ UNCHANGED imageryFailed
       \/ /\ pc' = "layer"
          /\ UNCHANGED <<page, imageryFailed>>
    /\ UNCHANGED <<i, m, district_temps, summary, gets, weatherFailed>>

\* m.add_ee_layer(...): getMapId, then the tile layer, outside any try
add_ee_layer ==
    /\ pc = "layer"
    /\ \/ /\ Abort
          /\ imageryFailed' = imageryFailed \cup {"tiles"}
          /\ UNCHANGED m
       \/ /\ pc' = "markers"
          /\ m' = [m EXCEPT !.layers = Append(@, "MODIS LST")]
          /\ UNCHANGED <<page, imageryFailed>>
    /\ UNCHANGED <<i, district_temps, summary, gets, weatherFailed>>

\* one pass of the marker loop: get_weather, heat_alert, folium.Marker
MarkerStep ==
    /\ pc = "markers"
    /\ gets' = IssueGet(gets, i)
    /\ \/ /\ Abort
          /\ weatherFailed' = weatherFailed \cup {"markers"}
          /\ UNCHANGED <<i, m>>
       \/ /\ \E t \in Temps : m' = [m EXCEPT !.markers = Append(@, Marker(locations[i], t))]
          /\ i' = IF i < NumLocations THEN i + 1 ELSE 1
          /\ pc' = IF i < NumLocations THEN "markers" ELSE "render"
          /\ UNCHANGED <<page, weatherFailed>>
    /\ UNCHANGED <<district_temps, summary, imageryFailed>>

\* st_folium(m, ...): the map goes to the page; m is not read again
RenderMap ==
    /\ pc = "render"
    /\ page' = page \cup {"map"}
    /\ m' = EmptyMap
    /\ pc' = "timeseries"
    /\ UNCHANGED <<i, district_temps, summary, gets, weatherFailed, imageryFailed>>

\* "if dates:" after the loop over ts_list
HasDates(ts_list) == \E j \in DOMAIN ts_list : ts_list[j] = "valid"

\* the time-series section: try ... except Exception
TimeSeries ==
    /\ pc = "timeseries"
    /\ \/ /\ page' = page \cup {"ts_error"}
          /\ imageryFailed' = imageryFailed \cup {"timeseries"}
       \/ /\ \E ts_list \in FeatureLists :
                page' = page \cup {IF HasDates(ts_list) THEN "ts_chart" ELSE "ts_warning"}
          /\ UNCHANGED imageryFailed
    /\ pc' = "spatial"
    /\ UNCHANGED <<i, m, district_temps, summary, gets, weatherFailed>>

\* one pass of the spatial section's fetch loop, inside its try
SpatialFetch ==
    /\ pc = "spatial"
    /\ gets' = IssueGet(gets, i)
    /\ \/ /\ page' = page \cup {"spatial_error"}
          /\ weatherFailed' = weatherFailed \cup {"spatial"}
          /\ pc' = "alerts"
          /\ i' = 1
          /\ UNCHANGED district_temps
       \/ /\ \E t \in Temps :
                district_temps' =
                    Append(district_temps, [District |-> locations[i], Temperature |-> t])
          /\ i' = IF i < NumLocations THEN i + 1 ELSE 1
          /\ pc' = IF i < NumLocations THEN "spatial" ELSE "analysis"
          /\ UNCHANGED <<page, weatherFailed>>
    /\ UNCHANGED <<m, summary, imageryFailed>>

\* the rest of the spatial section's try, and its except
Analysis ==
    /\ pc = "analysis"
    /\ \E e \in FloatMeanErr(Column(district_temps, "Temperature")) :
            summary' = SpatialAnalysis(district_temps, e)
    /\ page' = page \cup {IF summary'.outcome = "ok" THEN "spatial" ELSE "spatial_error"}
    /\ pc' = "alerts"
    /\ UNCHANGED <<i, m, district_temps, gets, weatherFailed, imageryFailed>>

\* one pass of the live-alerts loop, outside any try
AlertStep ==
    /\ pc = "alerts"
    /\ gets' = IssueGet(gets, i)
    /\ \/ /\ Abort
          /\ weatherFailed' = weatherFailed \cup {"alerts"}
          /\ UNCHANGED i
       \/ /\ i' = IF i < NumLocations THEN i + 1 ELSE 1
          /\ pc' = IF i < NumLocations THEN "alerts" ELSE "done"
          /\ page' = IF i < NumLocations THEN page ELSE page \cup {"alerts"}
          /\ UNCHANGED weatherFailed
    /\ UNCHANGED <<m, district_temps, summary, imageryFailed>>

Ended == pc \in {"done", "aborted"}

\* st_autorefresh(interval=60000): the script runs again from the top
Refresh ==
    /\ Ended
    /\ pc' = "modis"
    /\ i' = 1
    /\ m' = EmptyMap
    /\ district_temps' = <<>>
    /\ summary' = NoSummary
    /\ page' = {}
    /\ gets' = [d \in DOMAIN locations |-> 0]
    /\ weatherFailed' = {}
    /\ imageryFailed' = {}

Next ==
    \/ BandCount
    \/ add_ee_layer
    \/ MarkerStep
    \/ RenderMap
    \/ TimeSeries
    \/ SpatialFetch
    \/ Analysis
    \/ AlertStep
    \/ Refresh

Spec == Init /\ [][Next]_vars

----------------------------------------------------------------------------
(* The spatial section's computation on a table of any length *)

Tables ==
    UNION {{[j \in 1..n |-> [District |-> locations[j], Temperature |-> f[j]]] :
                f \in [1..n -> Temps]} : n \in 0..NumLocations}

InitUHI ==
    /\ pc = "analysis"
    /\ i = 1
    /\ m = EmptyMap
    /\ district_temps \in Tables
    /\ summary = NoSummary
    /\ page = {}
    /\ gets = [d \in DOMAIN locations |-> 0]
    /\ weatherFailed = {}
    /\ imageryFailed = {}

NextUHI == Analysis

SpecUHI == InitUHI /\ [][NextUHI]_vars

----------------------------------------------------------------------------
(* Claims *)

Severity(alert) == IF alert = EXTREME_HEAT THEN 2 ELSE IF alert = HIGH_HEAT THEN 1 ELSE 0

MarkerWith(t, alert) ==
    \E j \in DOMAIN m.markers :
        m.markers[j].temperature = t /\ m.markers[j].alert = alert

\* C1: every marker's alert is the extreme category when its reading is at
\* least 40, the high category when it is at least 35 and below 40, and the
\* normal category below 35; classifying never ends the run (a run is only
\* ever aborted by a failed external call).
C1_HeatAlertThresholds ==
    /\ \A j \in DOMAIN m.markers :
          LET t == m.markers[j].temperature
              a == m.markers[j].alert
          IN  /\ t >= 4000 => a = EXTREME_HEAT
              /\ (t >= 3500 /\ t < 4000) => a = HIGH_HEAT
              /\ t < 3500 => a = NORMAL
    /\ pc = "aborted" => weatherFailed \cup imageryFailed # {}

\* a map holding markers for 40.00, 39.99, 35.00 and 34.99 at once
C1_Witness ==
    /\ MarkerWith(4000, EXTREME_HEAT)
    /\ MarkerWith(3999, HIGH_HEAT)
    /\ MarkerWith(3500, HIGH_HEAT)
    /\ MarkerWith(3499, NORMAL)

\* C8: of two markers, the one with the higher reading never has the
\* alert of lower severity (normal < high heat < extreme heat).
C8_HeatAlertMonotonic ==
    \A j, k \in DOMAIN m.markers :
        m.markers[j].temperature > m.markers[k].temperature
            => Severity(m.markers[j].alert) >= Severity(m.markers[k].alert)

\* a map with readings in all three categories, and two different readings in one
C8_Witness ==
    /\ \E j, k, l \in DOMAIN m.markers :
          /\ m.markers[j].temperature > m.markers[k].temperature
          /\ m.markers[k].temperature > m.markers[l].temperature
          /\ Severity(m.markers[j].alert) = 2
          /\ Severity(m.markers[k].alert) = 1
          /\ Severity(m.markers[l].alert) = 0
    /\ \E j, k \in DOMAIN m.markers :
          /\ m.markers[j].temperature > m.markers[k].temperature
          /\ m.markers[j].alert = m.markers[k].alert

\* C10: a marker's icon is red exactly when its alert is the high-heat or
\* the extreme-heat category, and green exactly when it is the normal one.
C10_MarkerColorMatchesAlert ==
    \A j \in DOMAIN m.markers :
        LET mk == m.markers[j]
        IN  /\ mk.color = "red" <=> mk.alert \in {HIGH_HEAT, EXTREME_HEAT}
            /\ mk.color = "green" <=> mk.alert = NORMAL

\* a map with a red marker at exactly 35.00, a red one at 40.00 and a green one
C10_Witness ==
    /\ \E j \in DOMAIN m.markers :
          m.markers[j].temperature = 3500 /\ m.markers[j].color = "red"
    /\ \E j \in DOMAIN m.markers :
          m.markers[j].temperature = 4000 /\ m.markers[j].color = "red"
    /\ \E j \in DOMAIN m.markers : m.markers[j].color = "green"

Abs(x) == IF x < 0 THEN 0 - x ELSE x

Temperatures == Column(district_temps, "Temperature")

Nums(col) == [j \in DOMAIN col |-> col[j].num]

\* C2: the hottest district's anomaly is at least, and the coolest
\* district's at most, that of every district of the table; among districts
\* tied for the maximum (minimum) the earliest of the location list is reported.
C2_HottestCoolestExtremal ==
    summary.outcome = "ok" =>
        LET u == Nums(summary.uhi_intensity)
            h == summary.hottest_district
            c == summary.coolest_district
        IN  /\ h.District = locations[h.index] /\ c.District = locations[c.index]
            /\ h.UHI_Intensity.num = u[h.index] /\ c.UHI_Intensity.num = u[c.index]
            /\ \A j \in DOMAIN u : u[h.index] >= u[j] /\ u[c.index] <= u[j]
            /\ \A j \in DOMAIN u : j < h.index => u[j] < u[h.index]
            /\ \A j \in DOMAIN u : j < c.index => u[j] > u[c.index]

\* a table whose maximum and minimum are both tied, neither first at row 1
\* at once with the other
C2_Witness ==
    /\ summary.outcome = "ok"
    /\ LET u == Nums(summary.uhi_intensity)
           h == summary.hottest_district.index
           c == summary.coolest_district.index
       IN  /\ h > 1 /\ c = 1
           /\ \E j \in DOMAIN u : j > h /\ u[j] = u[h]
           /\ \E j \in DOMAIN u : j > c /\ u[j] = u[c]
           /\ u[h] > u[c]

\* C3 (as amended): each district's UHI Intensity is its temperature minus
\* the mean of the table's temperatures, up to a floating-point deviation
\* below the spec's tolerance, so n times it is n times the temperature
\* minus the sum, and the intensities sum to zero; the Temp Anomaly column of
\* the comparison table is that difference rounded to two decimals, within
\* half a hundredth of it.
C3_AnomalyIsDeviationFromMean ==
    summary.outcome = "ok" =>
        LET n == Len(district_temps)
            u == summary.uhi_intensity
        IN  /\ summary.n = n /\ n >= 1
            /\ \A j \in DOMAIN u :
                  /\ u[j].num = n * Temperatures[j] - SumSeq(Temperatures)
                  /\ u[j].err \in {0 - 1, 0, 1}
            /\ SumSeq(Nums(u)) = 0
            /\ \A j \in DOMAIN u : 2 * Abs(n * summary.temp_anomaly[j] - u[j].num) <= n

\* C3 (as stated): the Temp Anomaly column too is the temperature minus the
\* mean, and sums to zero.
C3_TempAnomalyExact ==
    summary.outcome = "ok" =>
        LET n == Len(district_temps)
        IN  /\ \A j \in DOMAIN district_temps :
                  n * summary.temp_anomaly[j] = n * Temperatures[j] - SumSeq(Temperatures)
            /\ SumSeq(summary.temp_anomaly) = 0

\* a table whose anomalies are not whole hundredths: the rounded column
\* differs from the intensity and does not sum to zero
C3_Witness ==
    /\ summary.outcome = "ok"
    /\ \E j \in DOMAIN district_temps :
          Len(district_temps) * summary.temp_anomaly[j] # summary.uhi_intensity[j].num
    /\ SumSeq(summary.temp_anomaly) # 0
    /\ SumSeq(Nums(summary.uhi_intensity)) = 0

\* C9 (as stated): the Max Temp District is the Hottest Zone and the Min
\* Temp District the Coolest Zone, ties included; the hottest district's
\* anomaly is never negative and the coolest district's never positive.
C9_ExtremesAgreeAndSigned ==
    summary.outcome = "ok" =>
        /\ summary.max_temp_district = summary.hottest_district.District
        /\ summary.min_temp_district = summary.coolest_district.District
        /\ ~IsNegative(summary.hottest_district.UHI_Intensity)
        /\ ~IsPositive(summary.coolest_district.UHI_Intensity)

\* C9, the part the code keeps: the same districts are reported, and the
\* hottest anomaly is positive and the coolest negative unless all
\* temperatures are equal.
C9_ExtremesAgree ==
    summary.outcome = "ok" =>
        /\ summary.max_temp_district = summary.hottest_district.District
        /\ summary.min_temp_district = summary.coolest_district.District
        /\ ~AllEqual(Temperatures) =>
              /\ summary.hottest_district.UHI_Intensity.num > 0
              /\ summary.coolest_district.UHI_Intensity.num < 0

Sections == {"map", "timeseries", "spatial", "alerts"}

\* the section a get_weather call site belongs to
SectionOf(site) == IF site = "markers" THEN "map" ELSE site

\* the section ran to its end in this run (its own error message included)
Completed(s) ==
    IF s = "map" THEN "map" \in page
    ELSE IF s = "timeseries" THEN page \cap {"ts_chart", "ts_warning", "ts_error"} # {}
    ELSE IF s = "spatial" THEN page \cap {"spatial", "spatial_error"} # {}
    ELSE "alerts" \in page

\* C4: when one get_weather call of a run fails, every section other than
\* the one that issued it has run to completion by the end of the run.
C4_WeatherFailureIsLocal ==
    (Ended /\ Cardinality(weatherFailed) = 1 /\ imageryFailed = {}) =>
        \A site \in weatherFailed :
            \A s \in Sections \ {SectionOf(site)} : Completed(s)

\* C5: when an imagery request of a run fails, the failure is caught (no
\* uncaught exception ends the run) and every later section has run by the
\* end of the run.
C5_ImageryFailureIsCaught ==
    (Ended /\ imageryFailed # {} /\ weatherFailed = {}) =>
        /\ "exception" \notin page
        /\ \A s \in Sections : Completed(s)

NoFailure == weatherFailed = {} /\ imageryFailed = {}

\* C7 (as stated): a run that completes without a failure has sent exactly
\* one GET per district.
C7_OneGetPerDistrict ==
    (pc = "done" /\ NoFailure) => \A d \in DOMAIN gets : gets[d] = 1

\* C7 (as amended): a run that completes without a failure has sent exactly
\* three GETs per district, one from each call site of get_weather, none
\* re-issued.
C7_OneGetPerDistrictPerCallSite ==
    (pc = "done" /\ NoFailure) => \A d \in DOMAIN gets : gets[d] = Cardinality(CallSites)

\* a run that completed without a failure
C7_Witness ==
    /\ pc = "done"
    /\ NoFailure
    /\ Sections = {s \in Sections : Completed(s)}
    /\ \A d \in DOMAIN gets : gets[d] > 1

====
